---- MODULE Spec2Model ----
(***************************************************************************)
(* GMoni (monitor.py): a terminal dashboard that polls GPU metrics of a    *)
(* small fleet of hosts over ssh.  One asyncio event loop runs             *)
(* update_loop, which each round fans out one retry wrapper per host,      *)
(* joins them with asyncio.gather, re-renders the dashboard and sleeps.    *)
(*                                                                         *)
(* Text (Python str / bytes) is a sequence of tokens: a token is a single  *)
(* character ("0".."9", "-", "+", " ", ",", "\n", a letter), an            *)
(* indivisible run of ordinary characters (a literal of the program such   *)
(* as "Exit Code "), or BadByte, a byte that is not valid UTF-8.           *)
(* The "timestamp" of an entry is the polling round in which               *)
(* datetime.now() was read.                                                *)
(***************************************************************************)
EXTENDS Integers, Sequences, FiniteSets, TLC

(* ------------------------------ bounds -------------------------------- *)
\* number of configured hosts taken from the head of the configured list
NumHosts == 2
\* number of polling rounds explored
MaxRounds == 2

(* --------------------------- configuration ---------------------------- *)
AllServers == <<"server2", "server3", "server4", "server5">>
SERVERS == SubSeq(AllServers, 1, NumHosts)
MAX_RETRIES == 1

HostSet == {SERVERS[i] : i \in 1..Len(SERVERS)}

(* ------------------------------- text --------------------------------- *)
BadByte == "\\xff"
Whitespace == {" ", "\n", "\t", "\r"}
Digits == <<"0", "1", "2", "3", "4", "5", "6", "7", "8", "9">>
DigitSet == {Digits[i] : i \in 1..10}

\* bytes.decode(): raises UnicodeDecodeError on a byte that is not UTF-8
DecodeRaises(bytes) == \E i \in 1..Len(bytes) : bytes[i] = BadByte

RECURSIVE LStrip(_)
LStrip(s) == IF s # <<>> /\ Head(s) \in Whitespace THEN LStrip(Tail(s)) ELSE s

RECURSIVE RStrip(_)
RStrip(s) ==
    IF s # <<>> /\ s[Len(s)] \in Whitespace
    THEN RStrip(SubSeq(s, 1, Len(s) - 1))
    ELSE s

\* str.strip()
Strip(s) == RStrip(LStrip(s))

\* str.split(sep): always at least one part
RECURSIVE Split(_, _)
Split(s, sep) ==
    IF \E i \in 1..Len(s) : s[i] = sep
    THEN LET i == CHOOSE k \in 1..Len(s) :
                      s[k] = sep /\ \A j \in 1..(k - 1) : s[j] # sep
         IN  <<SubSeq(s, 1, i - 1)>> \o Split(SubSeq(s, i + 1, Len(s)), sep)
    ELSE <<s>>

DigitVal(c) == (CHOOSE i \in 1..10 : Digits[i] = c) - 1

RECURSIVE NatVal(_)
NatVal(ds) ==
    IF ds = <<>> THEN 0
    ELSE 10 * NatVal(SubSeq(ds, 1, Len(ds) - 1)) + DigitVal(ds[Len(ds)])

\* int(s) succeeds: optional surrounding whitespace, optional sign, digits
IntParses(s) ==
    LET t == Strip(s)
        body == IF t # <<>> /\ Head(t) \in {"-", "+"} THEN Tail(t) ELSE t
    IN  body # <<>> /\ \A i \in 1..Len(body) : body[i] \in DigitSet

\* int(s), where IntParses(s)
IntOf(s) ==
    LET t == Strip(s)
    IN  IF Head(t) = "-" THEN 0 - NatVal(Tail(t))
        ELSE IF Head(t) = "+" THEN NatVal(Tail(t))
        ELSE NatVal(t)

\* str(n) for n >= 0
RECURSIVE NatStr(_)
NatStr(n) == IF n < 10 THEN <<Digits[n + 1]>> ELSE NatStr(n \div 10) \o <<Digits[(n % 10) + 1]>>

Last(s) == s[Len(s)]

(* ------------------------------ parsing ------------------------------- *)
\* one line of the remote output: the samples it contributes (0 or 1)
ParseLine(line) ==
    LET raw == Split(line, ",")
        parts == [i \in 1..Len(raw) |-> Strip(raw[i])]
    IN  IF Len(parts) = 5
        THEN IF \A i \in 2..5 : IntParses(parts[i])
             THEN <<[id |-> parts[1],
                     util |-> IntOf(parts[2]),
                     mem_used |-> IntOf(parts[3]),
                     mem_total |-> IntOf(parts[4]),
                     temp |-> IntOf(parts[5])]>>
             ELSE <<>>          \* ValueError: continue
        ELSE <<>>

RECURSIVE ParseLines(_)
ParseLines(lines) ==
    IF lines = <<>> THEN <<>> ELSE ParseLine(Head(lines)) \o ParseLines(Tail(lines))

\* parsed_gpus for the decoded standard output
ParseStdout(text) ==
    LET raw_data == Strip(text)
    IN  IF raw_data # <<>> THEN ParseLines(Split(raw_data, "\n")) ELSE <<>>

\* variant: the "Exit Code" fallback for an empty standard error is missing
ShortErr_NoFallback(text, returncode) == Last(Split(Strip(text), "\n"))

\* short_err for the decoded standard error and the exit code
ShortErr(text, returncode) ==
    LET error_msg == Strip(text)
    IN  IF error_msg # <<>> THEN Last(Split(error_msg, "\n"))
        ELSE <<"Exit Code ">> \o NatStr(returncode)

(* --------------------------- store entries ---------------------------- *)
InitEntry == [status |-> "init", data |-> <<>>, last_error |-> <<>>]

OkEntry(parsed_gpus, now) ==
    [status |-> "ok", data |-> parsed_gpus, timestamp |-> now, last_error |-> <<>>]

\* variant: the status written on a failure is the "connecting" one
ErrorEntry_Reconnecting(msg, now) ==
    [status |-> "init", data |-> <<>>, timestamp |-> now, last_error |-> msg]

ErrorEntry(msg, now) ==
    [status |-> "error", data |-> <<>>, timestamp |-> now, last_error |-> msg]

\* the cross-mark emoji that opens the literal is written [x]
TimeoutMsg == <<"[x] SSH ", "Timed Out", " (Network/Firewall?)">>

ExceptionMsg(text) == <<"Exception: ">> \o text

\* variant: every host shares one entry object
StoreWrite_Shared(store, host, entry) == [k \in DOMAIN store |-> entry]

\* variant: the entry is filed under the command name instead of the host
StoreWrite_ByCommand(store, host, entry) ==
    [k \in (DOMAIN store) \cup {"ssh"} |-> IF k = "ssh" THEN entry ELSE store[k]]

\* variant: the entry is assigned to a local copy and lost
StoreWrite_Lost(store, host, entry) == store

\* SERVER_STATE[host] = entry  (a dict assignment: adds the key when absent)
StoreWrite(store, host, entry) ==
    [k \in (DOMAIN store) \cup {host} |-> IF k = host THEN entry ELSE store[k]]

(* --------------------- what one probe can run into -------------------- *)
ValidLine == <<"0", ",", " ", "1", "5", ",", "1", ",", "8", ",", "4", "5">>
JunkLine == <<"N", "/", "A", ",", "x">>

StdoutChoices ==
    { <<>>,
      JunkLine \o <<"\n">> \o ValidLine \o <<"\n">>,
      <<BadByte>> }

StderrChoices ==
    { <<>>,
      <<" ", "\n">>,
      <<"Warning: x", "\n", "ssh: connect to host: ", "Connection refused", "\n">> }

UnicodeErrorText == <<"'utf-8' codec can't decode byte 0xff">>
OSErrorText == <<"[Errno 24] Too many open files">>

\* the ways create_subprocess_shell / wait_for(communicate()) can end
ProbeOutcomes ==
    { [kind |-> "exit", returncode |-> 0, stdout |-> o, stderr |-> <<>>] :
          o \in StdoutChoices }
    \cup { [kind |-> "exit", returncode |-> 255, stdout |-> <<>>, stderr |-> e] :
          e \in StderrChoices }
    \cup { [kind |-> "timeout"], [kind |-> "raise", text |-> OSErrorText] }

\* variant: the last clause is a bare except, which also catches cancellation
Handled_BareExcept == {"TimeoutError", "Exception", "CancelledError"}

\* variant: the generic except clause is missing
Handled_TimeoutOnly == {"TimeoutError"}

\* exception classes the except clauses of _fetch_core handle
Handled == {"TimeoutError", "Exception"}

\* the try block of _fetch_core: either it reaches a return, or it raises
TryBlock(outcome, now) ==
    IF outcome.kind = "timeout"
    THEN [raises |-> "TimeoutError", text |-> <<>>]
    ELSE IF outcome.kind = "raise"
    THEN [raises |-> "Exception", text |-> outcome.text]
    ELSE IF outcome.returncode = 0
    THEN IF DecodeRaises(outcome.stdout)
         THEN [raises |-> "Exception", text |-> UnicodeErrorText]
         ELSE [raises |-> "none",
               entry |-> OkEntry(ParseStdout(outcome.stdout), now),
               success |-> TRUE]
    ELSE IF DecodeRaises(outcome.stderr)
         THEN [raises |-> "Exception", text |-> UnicodeErrorText]
         ELSE [raises |-> "none",
               entry |-> ErrorEntry(ShortErr(outcome.stderr, outcome.returncode), now),
               success |-> FALSE]

\* _fetch_core as a whole: the entry it writes (if any), what it returns,
\* and whether an exception leaves it
FetchCoreResult(outcome, now) ==
    LET t == TryBlock(outcome, now)
    IN  IF t.raises = "none"
        THEN [written |-> TRUE, entry |-> t.entry, success |-> t.success, escapes |-> FALSE]
        ELSE IF t.raises = "TimeoutError" /\ "TimeoutError" \in Handled
        THEN [written |-> TRUE, entry |-> ErrorEntry(TimeoutMsg, now),
              success |-> FALSE, escapes |-> FALSE]
        ELSE IF "Exception" \in Handled
        THEN [written |-> TRUE, entry |-> ErrorEntry(ExceptionMsg(t.text), now),
              success |-> FALSE, escapes |-> FALSE]
        ELSE [written |-> FALSE, entry |-> InitEntry, success |-> FALSE, escapes |-> TRUE]

\* _fetch_core for every probe outcome and every round's clock reading
FetchTable ==
    [outcome \in ProbeOutcomes, now \in 0..MaxRounds |-> FetchCoreResult(outcome, now)]

\* how a probe ended, as the operating system reports it
ProbeClass(outcome) ==
    IF outcome.kind = "exit"
    THEN (IF outcome.returncode = 0 THEN "exit0" ELSE "nonzero")
    ELSE outcome.kind

\* how an attempt ended, as the wrapper sees it
AttemptClass(outcome, res) ==
    IF res.success THEN "ok"
    ELSE IF outcome.kind = "timeout" THEN "timeout"
    ELSE "fail"

\* variant: after the last failed attempt the wrapper waits for the
\* abandoned ssh process to exit, which a hung host never does
WrapperNext_WaitsForProcess(success, att) ==
    IF success THEN "done"
    ELSE IF att < MAX_RETRIES THEN "sleep"
    ELSE "waiting"

\* variant: the return on success is missing
WrapperNext_NoReturn(success, att) == IF att < MAX_RETRIES THEN "sleep" ELSE "done"

\* variant: the wrapper gives up after the first failure
WrapperNext_NoRetry(success, att) == "done"

\* fetch_single_server_with_retry after _fetch_core returned: where the
\* wrapper goes next
WrapperNext(success, att) ==
    IF success THEN "done"
    ELSE IF att < MAX_RETRIES THEN "sleep"
    ELSE "done"

(* ------------------------------ renderer ------------------------------ *)
\* state.get(key, default)
Get(state, key, default) == IF key \in DOMAIN state THEN state[key] ELSE default

\* a percentage is kept exact, as the fraction num/den with den > 0
Max0(n) == IF n > 0 THEN n ELSE 0

\* int(a / b) for b > 0: truncation toward zero
Trunc(a, b) == IF a >= 0 THEN a \div b ELSE 0 - ((0 - a) \div b)

get_color_usage(percent) ==
    IF percent.num < 30 * percent.den THEN "green"
    ELSE IF percent.num < 80 * percent.den THEN "yellow"
    ELSE "red"

get_color_temp(temp) ==
    IF temp < 60 THEN "green"
    ELSE IF temp < 80 THEN "yellow"
    ELSE "red bold blink"

\* bar width of the table columns, and the default of create_bar
TableBarWidth == 8
DefaultBarWidth == 10

\* variant: the fill is rounded to the nearest cell
Blocks_Rounded(percent, width) ==
    Trunc(2 * percent.num * width + percent.den * 100, 2 * percent.den * 100)

\* blocks = int((percent / 100) * width)
Blocks(percent, width) == Trunc(percent.num * width, percent.den * 100)

\* the bar string: its colour and its numbers of filled and unfilled cells
\* (a string repeated a negative number of times is empty)
create_bar(percent, width) ==
    LET blocks == Blocks(percent, width)
    IN  [color |-> get_color_usage(percent),
         filled |-> Max0(blocks),
         unfilled |-> Max0(width - blocks)]

\* mem_pct of render_server_panel
MemPct(gpu) ==
    IF gpu.mem_total > 0
    THEN [num |-> gpu.mem_used * 100, den |-> gpu.mem_total]
    ELSE [num |-> 0, den |-> 1]

\* one table.add_row of render_server_panel
TableRow(gpu) ==
    [id |-> gpu.id,
     util_bar |-> create_bar([num |-> gpu.util, den |-> 1], TableBarWidth),
     util |-> gpu.util,
     mem_bar |-> create_bar(MemPct(gpu), TableBarWidth),
     mem_pct |-> MemPct(gpu),
     temp_style |-> get_color_temp(gpu.temp),
     temp |-> gpu.temp]

render_server_panel(store, host) ==
    LET state == Get(store, host, [x \in {} |-> x])
        status == Get(state, "status", "init")
    IN  IF status = "init" THEN [kind |-> "connecting", host |-> host, rows |-> <<>>]
        ELSE IF status = "error" THEN [kind |-> "failed", host |-> host, rows |-> <<>>]
        ELSE LET gpus == Get(state, "data", <<>>)
             IN  [kind |-> "table", host |-> host,
                  rows |-> [g \in 1..Len(gpus) |-> TableRow(gpus[g])]]

BlankPanel == [kind |-> "blank", host |-> "", rows |-> <<>>]

\* variant: the loop stops before a last host that has no neighbour
DashboardOf_DropsLast(servers, store) ==
    [r \in 1..(Len(servers) \div 2) |->
        <<render_server_panel(store, servers[2 * r - 1]),
          render_server_panel(store, servers[2 * r])>>]

\* the grid for a host list: one row per pair of hosts
DashboardOf(servers, store) ==
    LET num_servers == Len(servers)
    IN  [r \in 1..((num_servers + 1) \div 2) |->
            LET i == 2 * r - 1
            IN  <<render_server_panel(store, servers[i]),
                  IF i + 1 <= num_servers
                  THEN render_server_panel(store, servers[i + 1])
                  ELSE BlankPanel>>]

generate_dashboard(store) == DashboardOf(SERVERS, store)

(* ------------------------------- state -------------------------------- *)
VARIABLES
    sshFound,       \* environment: shutil.which("ssh") finds the executable
    mainPc,         \* main(): "start", "run", "gather", "sleep", "exited"
    exitStatus,     \* process exit status once mainPc = "exited"
    exitCause,      \* "none", "no_ssh", "interrupt", "exception"
    round,          \* number of polling rounds started
    renders,        \* number of generate_dashboard() calls so far
    lastRender,     \* what the last generate_dashboard() call read
    SERVER_STATE,   \* the store
    pc,             \* per host wrapper: "idle", "fetch", "sleep", "done", "cancelled"
    attempt,        \* per host: the loop variable of the wrapper
    tries,          \* per host: how each attempt of this round's wrapper ended
    lastProbe,      \* per host: how the probe of its latest attempt ended
    fnArg,          \* input of the function under study (function-level specifications)
    fnRes           \* its result

prog == <<sshFound, mainPc, exitStatus, exitCause, round, renders,
          lastRender, SERVER_STATE, pc, attempt, tries, lastProbe>>

vars == <<prog, fnArg, fnRes>>

RenderRecord(store) ==
    [round |-> round,
     running |-> {h \in HostSet : pc[h] \in {"fetch", "sleep"}},
     stamps |-> [h \in HostSet |-> Get(Get(store, h, InitEntry), "timestamp", 0)]]

\* the program as constructed, ssh present or not
ProgInit ==
    /\ sshFound \in BOOLEAN
    /\ mainPc = "start"
    /\ exitStatus = 0
    /\ exitCause = "none"
    /\ round = 0
    /\ renders = 0
    /\ lastRender = [round |-> 0, running |-> {}, stamps |-> [h \in HostSet |-> 0]]
    /\ SERVER_STATE = [s \in HostSet |-> InitEntry]
    /\ pc = [h \in HostSet |-> "idle"]
    /\ attempt = [h \in HostSet |-> 0]
    /\ tries = [h \in HostSet |-> <<>>]
    /\ lastProbe = [h \in HostSet |-> "none"]

Init ==
    /\ ProgInit
    /\ fnArg = <<>>
    /\ fnRes = <<>>

\* exit status of the interpreter when main() returns normally
ReturnStatus == 0
\* exit status of the interpreter when an exception leaves main()
TracebackStatus == 1

\* main(): the precondition check, the initial render, entering Live
Main ==
    /\ mainPc = "start"
    /\ IF ~sshFound
       THEN /\ mainPc' = "exited"
            /\ exitStatus' = ReturnStatus
            /\ exitCause' = "no_ssh"
            /\ UNCHANGED <<renders, lastRender>>
       ELSE /\ mainPc' = "run"
            /\ renders' = renders + 1
            /\ lastRender' = RenderRecord(SERVER_STATE)
            /\ UNCHANGED <<exitStatus, exitCause>>
    /\ UNCHANGED <<sshFound, round, SERVER_STATE, pc, attempt, tries, lastProbe>>
    /\ UNCHANGED <<fnArg, fnRes>>

\* update_loop: top of the while loop (first entry, or the inter-round sleep
\* has elapsed): create one wrapper per host and await gather
FanOut ==
    /\ mainPc \in {"run", "sleep"}
    /\ round < MaxRounds
    /\ mainPc' = "gather"
    /\ round' = round + 1
    /\ pc' = [h \in HostSet |-> "fetch"]
    /\ attempt' = [h \in HostSet |-> 0]
    /\ tries' = [h \in HostSet |-> <<>>]
    /\ UNCHANGED <<sshFound, exitStatus, exitCause, renders, lastRender,
                   SERVER_STATE, lastProbe>>
    /\ UNCHANGED <<fnArg, fnRes>>

\* one call of _fetch_core(host) returns to the wrapper
FetchCore(host) ==
    /\ mainPc = "gather"
    /\ pc[host] = "fetch"
    /\ \E outcome \in ProbeOutcomes :
         LET res == FetchTable[outcome, round]
         IN  /\ tries' = [tries EXCEPT ![host] = @ \o <<AttemptClass(outcome, res)>>]
             /\ lastProbe' = [lastProbe EXCEPT ![host] = ProbeClass(outcome)]
             /\ SERVER_STATE' = IF res.written
                                THEN StoreWrite(SERVER_STATE, host, res.entry)
                                ELSE SERVER_STATE
             /\ IF res.escapes
                THEN \* gather re-raises, asyncio.run cancels the rest, main() dies
                     /\ pc' = [h \in HostSet |->
                                 IF h = host THEN "done"
                                 ELSE IF pc[h] \in {"fetch", "sleep"} THEN "cancelled"
                                 ELSE pc[h]]
                     /\ mainPc' = "exited"
                     /\ exitStatus' = TracebackStatus
                     /\ exitCause' = "exception"
                ELSE /\ pc' = [pc EXCEPT ![host] = WrapperNext(res.success, attempt[host])]
                     /\ UNCHANGED <<mainPc, exitStatus, exitCause>>
    /\ UNCHANGED <<sshFound, round, renders, lastRender, attempt>>
    /\ UNCHANGED <<fnArg, fnRes>>

\* asyncio.sleep(1) between two attempts has elapsed
RetrySleep(host) ==
    /\ mainPc = "gather"
    /\ pc[host] = "sleep"
    /\ pc' = [pc EXCEPT ![host] = "fetch"]
    /\ attempt' = [attempt EXCEPT ![host] = @ + 1]
    /\ UNCHANGED <<sshFound, mainPc, exitStatus, exitCause, round, renders,
                   lastRender, SERVER_STATE, tries, lastProbe>>
    /\ UNCHANGED <<fnArg, fnRes>>

\* variant: the join returns on the first completed wrapper
GatherReady_FirstCompleted == \E h \in HostSet : pc[h] = "done"

\* asyncio.gather(*tasks) returns once every wrapper has returned
GatherReady == \A h \in HostSet : pc[h] = "done"

\* update_loop: gather returns, live.update(generate_dashboard()), then sleep
JoinRender ==
    /\ mainPc = "gather"
    /\ GatherReady
    /\ mainPc' = "sleep"
    /\ renders' = renders + 1
    /\ lastRender' = RenderRecord(SERVER_STATE)
    /\ UNCHANGED <<sshFound, exitStatus, exitCause, round, SERVER_STATE, pc, attempt,
                   tries, lastProbe>>
    /\ UNCHANGED <<fnArg, fnRes>>

\* the store once CancelledError has been thrown into every pending wrapper:
\* a wrapper inside _fetch_core receives it in the try block, where only the
\* handled classes reach an except clause (CancelledError derives from
\* BaseException); a wrapper in asyncio.sleep(1) is outside any try
CancelledStore(store) ==
    [k \in DOMAIN store |->
        IF k \in HostSet /\ pc[k] = "fetch" /\ "CancelledError" \in Handled
        THEN ErrorEntry(ExceptionMsg(<<>>), round)
        ELSE store[k]]

\* KeyboardInterrupt during asyncio.run (pending join or inter-round sleep):
\* the pending tasks are cancelled, the except clause of main() swallows the
\* KeyboardInterrupt, Live is left and main() returns
Interrupt ==
    /\ mainPc \in {"run", "gather", "sleep"}
    /\ mainPc' = "exited"
    /\ exitStatus' = ReturnStatus
    /\ exitCause' = "interrupt"
    /\ pc' = [h \in HostSet |-> IF pc[h] \in {"fetch", "sleep"} THEN "cancelled" ELSE pc[h]]
    /\ SERVER_STATE' = CancelledStore(SERVER_STATE)
    /\ UNCHANGED <<sshFound, round, renders, lastRender, attempt, tries, lastProbe>>
    /\ UNCHANGED <<fnArg, fnRes>>

Next ==
    \/ Main
    \/ FanOut
    \/ \E h \in HostSet : FetchCore(h)
    \/ \E h \in HostSet : RetrySleep(h)
    \/ JoinRender
    \/ Interrupt

Spec == Init /\ [][Next]_vars

\* a step of the running round: the event loop resumes a wrapper whose probe
\* has ended (at the latest by the wait_for timeout) or whose retry delay has
\* elapsed, or resumes update_loop once gather is done
RoundStep ==
    \/ \E h \in HostSet : FetchCore(h)
    \/ \E h \in HostSet : RetrySleep(h)
    \/ JoinRender

\* the event loop keeps running whatever is ready
FairSpec == Spec /\ WF_vars(RoundStep)

(* ------------------------------ properties ---------------------------- *)
Status(h) == Get(Get(SERVER_STATE, h, InitEntry), "status", "init")
Stamp(h) == Get(Get(SERVER_STATE, h, InitEntry), "timestamp", 0)
AllFailed(t) == \A i \in 1..Len(t) : t[i] # "ok"
AllTimedOut(t) == \A i \in 1..Len(t) : t[i] = "timeout"

\* C1: a wrapper whose attempts all fail makes exactly 1+MAX_RETRIES attempts
\* and leaves Error; one whose first attempt fails and second succeeds makes
\* exactly 2 attempts and leaves Ok; no attempt follows a success.
C1_RetryAttempts ==
    \A h \in HostSet :
        /\ \A i \in 1..Len(tries[h]) : tries[h][i] = "ok" => i = Len(tries[h])
        /\ pc[h] = "done" =>
            /\ AllFailed(tries[h]) =>
                   Len(tries[h]) = 1 + MAX_RETRIES /\ Status(h) = "error"
            /\ (Len(tries[h]) >= 2 /\ tries[h][1] # "ok" /\ tries[h][2] = "ok") =>
                   Len(tries[h]) = 2 /\ Status(h) = "ok"

C1_Witness ==
    \E a, b \in HostSet :
        /\ pc[a] = "done" /\ AllFailed(tries[a]) /\ Len(tries[a]) = 1 + MAX_RETRIES
        /\ pc[b] = "done" /\ Len(tries[b]) = 2 /\ tries[b][1] # "ok" /\ tries[b][2] = "ok"

\* C2: once every wrapper of the round has returned, a host whose attempts
\* all timed out is Error with the timeout message and a host whose probe
\* succeeded is Ok, whatever the interleaving was.
C2_TimeoutAndSuccess ==
    (\A h \in HostSet : pc[h] = "done") =>
        \A a, b \in HostSet :
            (a # b /\ AllTimedOut(tries[a]) /\ Last(tries[b]) = "ok") =>
                /\ Status(a) = "error"
                /\ SERVER_STATE[a].last_error = TimeoutMsg
                /\ Status(b) = "ok"

C2_Witness ==
    /\ mainPc = "sleep"
    /\ \E a, b \in HostSet :
           /\ a # b
           /\ Len(tries[a]) = 1 + MAX_RETRIES /\ AllTimedOut(tries[a])
           /\ Last(tries[b]) = "ok"

C4_ErrorOnlyAfterExhaustion ==
    \A h \in HostSet :
        (Status(h) = "error" /\ Stamp(h) = round) =>
            Len(tries[h]) = 1 + MAX_RETRIES /\ AllFailed(tries[h])

\* C4 amended: the entry is replaced at the end of every attempt; once the
\* host's wrapper has returned, an Error entry means that all 1+MAX_RETRIES
\* attempts of the round failed.
C4_ErrorAfterWrapperDone ==
    \A h \in HostSet :
        (pc[h] = "done" /\ Status(h) = "error") =>
            /\ Len(tries[h]) = 1 + MAX_RETRIES
            /\ AllFailed(tries[h])
            /\ Stamp(h) = round

C4_Witness ==
    \E h \in HostSet :
        /\ pc[h] = "done" /\ Status(h) = "error"
        /\ Len(tries[h]) = 1 + MAX_RETRIES
        /\ mainPc = "gather"

\* C5: an entry that has left Init never returns to Init, and every write
\* to an entry sets its status to Ok or Error.
C5_NeverBackToInit ==
    [][\A h \in HostSet :
          /\ Status(h) # "init" => SERVER_STATE'[h].status # "init"
          /\ SERVER_STATE'[h] # SERVER_STATE[h] =>
                 SERVER_STATE'[h].status \in {"ok", "error"}]_vars

C5_Witness ==
    \E h \in HostSet :
        /\ round = 2 /\ Stamp(h) = 2
        /\ Status(h) = "error"
        /\ Len(tries[h]) = 1

\* C6: the keys of the store are exactly the configured hosts and every
\* entry has one of the three statuses.
C6_OneEntryPerHost ==
    /\ DOMAIN SERVER_STATE = HostSet
    /\ \A h \in DOMAIN SERVER_STATE : SERVER_STATE[h].status \in {"init", "ok", "error"}

C6_Witness ==
    /\ DOMAIN SERVER_STATE = HostSet
    /\ \A h \in HostSet : Stamp(h) = 2
    /\ \E a, b \in HostSet : Status(a) = "ok" /\ Status(b) = "error"

\* C7: no probe failure leaves its host's task: the process never dies of
\* an exception, and when a round has been joined and rendered every host's
\* entry was written in that round and reflects that host's own last
\* attempt (Error if it failed, Ok if it succeeded).
C7_FailureContained ==
    /\ exitCause # "exception"
    /\ mainPc = "sleep" =>
           /\ renders = round + 1
           /\ \A h \in HostSet :
                  /\ Stamp(h) = round
                  /\ Last(tries[h]) # "ok" => Status(h) = "error"
                  /\ Last(tries[h]) = "ok" => Status(h) = "ok"

\* a second round is running while a host still shows the failure of the
\* first one next to a host that succeeded
C7_Witness ==
    /\ round = 2
    /\ mainPc = "gather"
    /\ \E a, b \in HostSet :
           /\ Status(a) = "error" /\ Stamp(a) = 1 /\ lastProbe[a] = "raise"
           /\ Status(b) = "ok" /\ Stamp(b) = 1

\* C8: a probe whose remote command exited with code 0 leaves its host Ok.
C8_ExitZeroIsOk ==
    \A h \in HostSet : lastProbe[h] = "exit0" => Status(h) = "ok"

\* C9: once the first round has been joined, no host is in Init.
C9_NoInitAfterFirstRound ==
    renders >= 2 => \A h \in HostSet : Status(h) # "init"

C9_Witness ==
    /\ renders = 2
    /\ round = 1
    /\ \A h \in HostSet : Status(h) \in {"ok", "error"}

\* C10: when the ssh executable is not found the process ends before any
\* render, round or store write, with a non-zero exit status, and no other
\* run ends with a non-zero exit status.
C10_FatalStartup ==
    mainPc = "exited" =>
        /\ ~sshFound =>
               /\ exitStatus # 0
               /\ renders = 0 /\ round = 0
               /\ \A h \in HostSet : Status(h) = "init"
        /\ exitStatus # 0 => ~sshFound

\* C11: once the loop has been entered the process ends only by operator
\* interrupt; the interrupt (pending join or inter-round sleep) writes no
\* store entry and starts no round, nothing happens after it, and the exit
\* status is 0.
C11_InterruptStopsLoop ==
    /\ [](mainPc = "exited" /\ renders >= 1 =>
              exitCause = "interrupt" /\ exitStatus = 0)
    /\ [][((mainPc # "exited" /\ mainPc' = "exited" /\ renders >= 1) =>
               (SERVER_STATE' = SERVER_STATE /\ round' = round /\ renders' = renders))
           /\ (mainPc = "exited" =>
               (SERVER_STATE' = SERVER_STATE /\ round' = round /\ pc' = pc))]_vars

\* interrupted while one wrapper was inside a probe and another had
\* already written its entry
C11_Witness ==
    /\ mainPc = "exited" /\ exitCause = "interrupt"
    /\ \E a, b \in HostSet :
           /\ pc[a] = "cancelled" /\ attempt[a] = 0 /\ tries[a] = <<>>
           /\ pc[b] = "done" /\ Stamp(b) = round

C13_WritesConfined ==
    [][/\ \A h \in HostSet :
              SERVER_STATE'[h] # SERVER_STATE[h] =>
                  /\ pc[h] = "fetch"
                  /\ Len(tries'[h]) = Len(tries[h]) + 1
                  /\ \A k \in HostSet \ {h} : SERVER_STATE'[k] = SERVER_STATE[k]
       /\ renders' # renders => SERVER_STATE' = SERVER_STATE
       /\ DOMAIN SERVER_STATE' = DOMAIN SERVER_STATE]_vars

\* in the second round one host has been written again while another
\* still holds its entry of the first round
C13_Witness ==
    /\ round = 2
    /\ \E a, b \in HostSet :
           /\ Stamp(a) = 2 /\ Len(tries[a]) = 1
           /\ Stamp(b) = 1 /\ pc[b] = "fetch" /\ tries[b] = <<>>

(* ---------------- function-level specification: parsing --------------- *)
\* the program at rest while one of its functions is studied on its own
ProgIdle == ProgInit /\ sshFound = TRUE

\* number of output lines of one probe
MaxLines == 2

\* sep.join(parts)
RECURSIVE JoinWith(_, _)
JoinWith(parts, sep) ==
    IF parts = <<>> THEN <<>>
    ELSE IF Len(parts) = 1 THEN parts[1]
    ELSE parts[1] \o sep \o JoinWith(Tail(parts), sep)

FieldInt == <<" ", "1", "5">>
FieldZero == <<"0">>
FieldNeg == <<"-", "3">>
FieldWord == <<"G", "P", "U">>
FieldEmpty == <<>>

\* output lines, each given by its comma-separated fields
LineChoices ==
    { <<FieldZero, FieldInt, FieldInt, FieldInt, FieldInt>>,
      <<FieldWord, FieldInt, FieldInt, FieldInt, FieldInt>>,
      <<FieldZero, FieldInt, FieldWord, FieldInt, FieldInt>>,
      <<FieldZero, FieldInt, FieldInt, FieldInt, FieldEmpty>>,
      <<FieldZero, FieldNeg, FieldInt, FieldInt, FieldInt>>,
      <<FieldZero, FieldInt, FieldInt, FieldInt>>,
      <<FieldZero, FieldInt, FieldInt, FieldInt, FieldInt, FieldInt>>,
      <<FieldEmpty>>,
      <<FieldWord>> }

\* the standard output that consists of these lines, each ended by a newline
OutputText(lines) ==
    JoinWith([i \in 1..Len(lines) |-> JoinWith(lines[i], <<",">>) \o <<"\n">>], <<>>)

ParseInit ==
    /\ ProgIdle
    /\ fnArg = <<>>
    /\ fnRes = [done |-> FALSE]

\* the remote command prints one more line
ParseAppend ==
    /\ ~fnRes.done
    /\ Len(fnArg) < MaxLines
    /\ \E l \in LineChoices : fnArg' = Append(fnArg, l)
    /\ UNCHANGED <<prog, fnRes>>

\* lines 54-69 of _fetch_core on that output
ParseRun ==
    /\ ~fnRes.done
    /\ fnRes' = [done |-> TRUE, samples |-> ParseStdout(OutputText(fnArg))]
    /\ UNCHANGED <<prog, fnArg>>

ParseNext == ParseAppend \/ ParseRun

ParseSpec == ParseInit /\ [][ParseNext]_vars

\* the sample the claim expects of a line given by its fields
ClaimedLine(fields) ==
    IF Len(fields) = 5 /\ \A j \in 1..5 : IntParses(fields[j])
    THEN <<[id |-> Strip(fields[1]),
            util |-> IntOf(fields[2]),
            mem_used |-> IntOf(fields[3]),
            mem_total |-> IntOf(fields[4]),
            temp |-> IntOf(fields[5])]>>
    ELSE <<>>

RECURSIVE ClaimedSamples(_)
ClaimedSamples(lines) ==
    IF lines = <<>> THEN <<>>
    ELSE ClaimedLine(Head(lines)) \o ClaimedSamples(Tail(lines))

\* C14: the samples parsed from an output are, in order, one sample with
\* matching fields for each line that has exactly 5 fields all of which
\* (index, utilization, memory used, memory total, temperature) parse as
\* integers, and nothing for any other line.
C14_LineAcceptedIffFiveIntegers ==
    fnRes.done => fnRes.samples = ClaimedSamples(fnArg)

(* ----------- function-level specification: memory percentage ---------- *)
\* largest memory reading tried (MiB), the smallest being -1
MaxMem == 9

\* str(n)
IntStr(n) == IF n < 0 THEN <<"-">> \o NatStr(0 - n) ELSE NatStr(n)

\* the output line of a GPU with these memory readings
MemLine(used, total) ==
    JoinWith(<<FieldZero, FieldInt, IntStr(used), IntStr(total), FieldInt>>, <<",", " ">>)

MemInit ==
    /\ ProgIdle
    /\ \E used \in (0 - 1)..MaxMem, total \in (0 - 1)..MaxMem :
           fnArg = ParseLine(MemLine(used, total))
    /\ fnRes = [done |-> FALSE]

\* line 173 of render_server_panel on the sample parsed from the line
MemRun ==
    /\ ~fnRes.done
    /\ fnArg # <<>>
    /\ fnRes' = [done |-> TRUE, mem_pct |-> MemPct(fnArg[1])]
    /\ UNCHANGED <<prog, fnArg>>

MemSpec == MemInit /\ [][MemRun]_vars

\* C15: for every accepted line the memory percentage is within [0,100]
\* when mem_total > 0 and is 0 when mem_total = 0, and no division by zero
\* takes place.
C15_MemPctInRange ==
    fnRes.done =>
        /\ fnRes.mem_pct.den > 0
        /\ fnArg[1].mem_total > 0 =>
               (0 <= fnRes.mem_pct.num /\ fnRes.mem_pct.num <= 100 * fnRes.mem_pct.den)
        /\ fnArg[1].mem_total = 0 => fnRes.mem_pct.num = 0

(* ---------------- function-level specification: the bar --------------- *)
\* largest integer percentage and largest bar width tried
MaxPercent == 120
MaxBarWidth == 10

\* percentages create_bar is called with: the utilization of an accepted
\* line (any integer) and the memory percentage of an accepted line
PercentChoices ==
    { [num |-> q, den |-> 1] : q \in (0 - 20)..MaxPercent }
    \cup { MemPct([mem_used |-> u, mem_total |-> t]) :
               u \in (0 - 1)..MaxMem, t \in 1..MaxMem }

IsWholePercent(percent) ==
    percent.den = 1 /\ 0 <= percent.num /\ percent.num <= 100

BarInit ==
    /\ ProgIdle
    /\ \E percent \in PercentChoices, width \in 1..MaxBarWidth :
           fnArg = [percent |-> percent, width |-> width]
    /\ fnRes = [done |-> FALSE]

\* create_bar(percent, width)
BarRun ==
    /\ ~fnRes.done
    /\ fnRes' = [done |-> TRUE, bar |-> create_bar(fnArg.percent, fnArg.width)]
    /\ UNCHANGED <<prog, fnArg>>

BarSpec == BarInit /\ [][BarRun]_vars

\* C16: the filled cells number between 0 and width, filled and unfilled
\* cells together number width, and the filled count does not decrease
\* when the percentage grows.
C16_BarWithinWidth ==
    fnRes.done =>
        /\ 0 <= fnRes.bar.filled /\ fnRes.bar.filled <= fnArg.width
        /\ fnRes.bar.filled + fnRes.bar.unfilled = fnArg.width
        /\ \A percent \in PercentChoices :
               percent.num * fnArg.percent.den >= fnArg.percent.num * percent.den =>
                   create_bar(percent, fnArg.width).filled >= fnRes.bar.filled

Abs(n) == IF n < 0 THEN 0 - n ELSE n

\* C17 as stated: for percent in 0..100 and the widths 8 and 10 the filled
\* length is percent/100 x width rounded to the nearest integer.
C17_FillIsRounded ==
    (fnRes.done /\ IsWholePercent(fnArg.percent)
        /\ fnArg.width \in {TableBarWidth, DefaultBarWidth}) =>
        2 * Abs(fnArg.percent.num * fnArg.width - 100 * fnRes.bar.filled) <= 100

\* C17 amended: for percent in 0..100 and the widths 8 and 10 the filled
\* length is percent/100 x width rounded down.
C17_FillIsFloor ==
    (fnRes.done /\ IsWholePercent(fnArg.percent)
        /\ fnArg.width \in {TableBarWidth, DefaultBarWidth}) =>
        /\ 100 * fnRes.bar.filled <= fnArg.percent.num * fnArg.width
        /\ fnArg.percent.num * fnArg.width < 100 * (fnRes.bar.filled + 1)
        /\ fnRes.bar.unfilled = fnArg.width - fnRes.bar.filled

\* 20 % on the 8-cell bar: 1.6 cells, one cell filled
C17_Witness ==
    /\ fnRes.done
    /\ fnArg = [percent |-> [num |-> 20, den |-> 1], width |-> TableBarWidth]
    /\ fnRes.bar.filled = 1

(* ------------- function-level specification: the dashboard ----------- *)
\* largest number of configured hosts rendered
MaxPanels == 3

\* the entries a store can hold: the initial one and those _fetch_core writes
EntryChoices ==
    {InitEntry}
    \cup {FetchTable[o, 1].entry : o \in ProbeOutcomes}
    \cup {OkEntry(ParseStdout(ValidLine \o <<"\n">> \o ValidLine), 1)}

DashInit ==
    /\ ProgIdle
    /\ \E n \in 1..MaxPanels :
           \E store \in [{AllServers[i] : i \in 1..n} -> EntryChoices] :
               fnArg = [servers |-> SubSeq(AllServers, 1, n), store |-> store]
    /\ fnRes = [done |-> FALSE]

\* generate_dashboard() for that host list and store
DashRun ==
    /\ ~fnRes.done
    /\ fnRes' = [done |-> TRUE, grid |-> DashboardOf(fnArg.servers, fnArg.store)]
    /\ UNCHANGED <<prog, fnArg>>

DashSpec == DashInit /\ [][DashRun]_vars

\* the i-th cell of the grid, row by row
Cell(grid, i) == grid[(i + 1) \div 2][2 - (i % 2)]

PanelKind(status) ==
    IF status = "init" THEN "connecting"
    ELSE IF status = "error" THEN "failed"
    ELSE "table"

C19_RoundCompletes ==
    /\ [](\A h \in HostSet : Len(tries[h]) <= 1 + MAX_RETRIES)
    /\ \A k \in 1..MaxRounds :
           (mainPc = "gather" /\ round = k) ~>
               ((mainPc = "sleep" /\ round = k /\ renders = k + 1)
                    \/ exitCause = "interrupt")

\* a round has been rendered in which a host timed out on every attempt
C19_Witness ==
    /\ mainPc = "sleep"
    /\ renders = round + 1
    /\ \E h \in HostSet :
           /\ Len(tries[h]) = 1 + MAX_RETRIES /\ AllTimedOut(tries[h])
           /\ lastRender.stamps[h] = round

\* C20: every entry is a fully formed variant: Init has no samples and no
\* message, Ok has no message, Error has no samples and a non-empty
\* message; a host that turns from Ok to Error keeps none of its samples.
C20_EntriesWellFormed ==
    /\ [](\A h \in HostSet :
              LET e == SERVER_STATE[h]
              IN  /\ e.status = "init" =>
                      (e.data = <<>> /\ e.last_error = <<>> /\ DOMAIN e = DOMAIN InitEntry)
                  /\ e.status = "ok" =>
                      (e.last_error = <<>> /\ DOMAIN e = DOMAIN OkEntry(<<>>, 0))
                  /\ e.status = "error" =>
                      (/\ e.data = <<>>
                       /\ e.last_error # <<>>
                       /\ \A i \in 1..Len(e.last_error) : e.last_error[i] # ""
                       /\ DOMAIN e = DOMAIN OkEntry(<<>>, 0)))
    /\ [][\A h \in HostSet :
              (SERVER_STATE[h].status = "ok" /\ SERVER_STATE'[h].status = "error") =>
                  SERVER_STATE'[h].data = <<>>]_vars

\* a host that showed samples after the first round has failed, with an
\* empty standard error, in the second
C20_Witness ==
    \E h \in HostSet :
        /\ round = 2 /\ Stamp(h) = 2
        /\ Status(h) = "error"
        /\ lastProbe[h] = "nonzero"
        /\ SERVER_STATE[h].last_error = <<"Exit Code ", "2", "5", "5">>
        /\ SERVER_STATE[h].data = <<>>

====
